---------------------------- MODULE Spec2Model ----------------------------
(***************************************************************************)
(* A model of repo_analyzer: the paged fetch of the Repository client      *)
(* (repo.py) and the two aggregation passes of the Analyzer (analyzer.py). *)
(*                                                                         *)
(*   SpecFetch      Repository._get_all_pages / Repository._query against  *)
(*                  a remote list endpoint                                 *)
(*   SpecFetchOk    the same, every response a 200, the loop running on    *)
(*   SpecSummarize  Analyzer._summarize, one loop iteration per step       *)
(*   SpecContrib    Analyzer.get_contributors over a fetched commit list   *)
(***************************************************************************)
EXTENDS Integers, Sequences, FiniteSets, TLC

(***************************************************************************)
(* Program constants.                                                      *)
(***************************************************************************)
\* Repository.__page_size
__page_size == 100
\* Analyzer.__STALE_PULL_REQUESTS_DAYS, Analyzer.__STALE_ISSUES_DAYS
__STALE_PULL_REQUESTS_DAYS == 30
__STALE_ISSUES_DAYS == 14
\* datetime.timedelta(days = 1), in seconds: datetimes are seconds since day 0
SecondsPerDay == 86400

(***************************************************************************)
(* Bounds of the model.                                                    *)
(***************************************************************************)
\* the remote collection holds 0..MaxTotal records (or is endless)
MaxTotal == 237
\* max_results of a call ranges over 0..MaxResults (0: uncapped)
MaxResults == 150
\* no request beyond page MaxPages is issued (cuts the endless uncapped loop)
MaxPages == 3
\* calendar days 0..MaxDay appear in date strings
MaxDay == 1
\* _summarize is given at most MaxElems records
MaxElems == 2
\* get_commits returns at most MaxCommits commits
MaxCommits == 6
\* the count argument of get_contributors ranges over 0..MaxCount
MaxCount == 3

(***************************************************************************)
(* Helpers.                                                                *)
(***************************************************************************)
Min(a, b) == IF a <= b THEN a ELSE b

\* Python's s[:n] for n >= 0
Take(s, n) == SubSeq(s, 1, Min(n, Len(s)))

\* Optional values: <<>> is None, <<v>> is the value v
None == <<>>
Some(v) == <<v>>

VARIABLES
    \* ---- the remote API (environment of Repository._query)
    total,          \* number of records the endpoint holds
    endless,        \* TRUE: the endpoint returns a full page on every request
    \* ---- Repository._get_all_pages
    max_results,    \* argument
    page_size,      \* local
    params,         \* the query parameters dict ("per_page", "page")
    page,           \* local
    data,           \* local: the accumulator
    sent,           \* the requests issued by the running call, in order
    returned,       \* None, or Some(list) once the call has returned a list
    pc,             \* "idle" | "request" | "await" | "done" | "error"
    uncapped,       \* None, or Some(list): what the last completed call with
                    \* max_results = 0 returned
    \* ---- Analyzer
    date_from,      \* Analyzer.__date_from: None or Some(datetime)
    date_to,        \* Analyzer.__date_to: None or Some(datetime)
    \* ---- Analyzer._summarize
    elements,       \* argument: the records
    stale_days,     \* argument
    now,            \* what datetime.datetime.now() returned
    deadline,       \* local: None before the call, then Some(datetime)
    idx,            \* position of the for loop: elements[idx] is next
    opened,         \* local
    closed,         \* local
    stale,          \* local
    spc,            \* "idle" | "loop" | "done" | "error"
    \* ---- Analyzer.get_contributors
    commits,        \* what Repository.get_commits returned
    count,          \* argument
    rating,         \* None, or Some(list of <<login, commits>>) once returned
    cpc             \* "idle" | "done" | "error"

fetchVars == <<total, endless, max_results, page_size, params, page, data,
               sent, returned, pc, uncapped>>

summarizeVars == <<date_from, date_to, elements, stale_days, now, deadline,
                   idx, opened, closed, stale, spc>>

contribVars == <<commits, count, rating, cpc>>

vars == <<fetchVars, summarizeVars, contribVars>>

apiVars == <<total, endless>>

(***************************************************************************)
(* The remote endpoint: records are numbered 1, 2, ... in the order the    *)
(* endpoint lists them; page p of size per_page is the slice               *)
(* (p-1)*per_page+1 .. p*per_page of the collection, cut at its end.       *)
(***************************************************************************)
ApiPageLen(per_page, p) ==
    IF endless THEN per_page
    ELSE LET rest == total - (p - 1) * per_page
         IN  IF rest <= 0 THEN 0 ELSE Min(rest, per_page)

ApiPage(per_page, p) ==
    [i \in 1..ApiPageLen(per_page, p) |-> (p - 1) * per_page + i]

(***************************************************************************)
(* Repository._get_all_pages                                               *)
(***************************************************************************)
\* lines 80-83
PageSizeFor(m) ==
    IF m # 0 /\ m < __page_size THEN m ELSE __page_size

\* line 95: data.extend(data_page)
ExtendPrepended(acc, data_page) == data_page \o acc

Extend(acc, data_page) == acc \o data_page

\* lines 97-99: the loop's exit test, after data.extend(data_page)
LoopBreaksOnShortPageOnly(data_page, acc) ==
    Len(data_page) < page_size

LoopBreaks(data_page, acc) ==
    \/ Len(data_page) < page_size
    \/ (max_results # 0 /\ Len(acc) >= max_results)

\* lines 104-106
ReturnValueUntruncated(acc) == acc

ReturnValueOneMore(acc) ==
    IF max_results # 0 THEN Take(acc, max_results + 1) ELSE acc

ReturnValue(acc) ==
    IF max_results # 0 THEN Take(acc, max_results) ELSE acc

\* lines 69-90: entry of _get_all_pages(endpoint, params, max_results = m)
Call(m) ==
    /\ pc \in {"idle", "done", "error"}
    /\ max_results' = m
    /\ data' = <<>>
    /\ page_size' = PageSizeFor(m)
    /\ params' = [per_page |-> PageSizeFor(m)]
    /\ page' = 1
    /\ sent' = <<>>
    /\ returned' = None
    /\ pc' = "request"
    /\ UNCHANGED <<apiVars, uncapped, summarizeVars, contribVars>>

\* lines 93-94 and 61-62: params.update({"page": page}); requests.get(...)
SendRequestStalePage ==
    /\ pc = "request"
    /\ page <= MaxPages
    /\ params' = IF "page" \in DOMAIN params THEN params
                 ELSE ("page" :> page) @@ params
    /\ sent' = Append(sent, params')
    /\ pc' = "await"
    /\ UNCHANGED <<apiVars, max_results, page_size, page, data, returned,
                   uncapped, summarizeVars, contribVars>>

SendRequest ==
    /\ pc = "request"
    /\ page <= MaxPages
    /\ params' = ("page" :> page) @@ params
    /\ sent' = Append(sent, params')
    /\ pc' = "await"
    /\ UNCHANGED <<apiVars, max_results, page_size, page, data, returned,
                   uncapped, summarizeVars, contribVars>>

\* lines 64-67 (status 200), 95-106
Respond200 ==
    /\ pc = "await"
    /\ LET data_page == ApiPage(params.per_page, params.page)
           acc == Extend(data, data_page)
       IN  /\ data' = acc
           /\ IF LoopBreaks(data_page, acc)
              THEN /\ returned' = Some(ReturnValue(acc))
                   /\ uncapped' = IF max_results = 0
                                  THEN Some(ReturnValue(acc))
                                  ELSE uncapped
                   /\ pc' = "done"
                   /\ page' = page
              ELSE /\ page' = page + 1
                   /\ pc' = "request"
                   /\ UNCHANGED <<returned, uncapped>>
    /\ UNCHANGED <<apiVars, max_results, page_size, params, sent,
                   summarizeVars, contribVars>>

\* lines 64-65: status # 200 raises RepositoryError, which nothing in
\* _get_all_pages catches: the call ends, its locals are gone
RespondErrorPartial ==
    /\ pc = "await"
    /\ data' = <<>>
    /\ returned' = Some(ReturnValue(data))
    /\ pc' = "error"
    /\ UNCHANGED <<apiVars, max_results, page_size, params, page, sent,
                   uncapped, summarizeVars, contribVars>>

RespondError ==
    /\ pc = "await"
    /\ data' = <<>>
    /\ returned' = None
    /\ pc' = "error"
    /\ UNCHANGED <<apiVars, max_results, page_size, params, page, sent,
                   uncapped, summarizeVars, contribVars>>

\* no call of _get_all_pages has been made
FetchIdle ==
    /\ max_results = 0
    /\ page_size = __page_size
    /\ params = [per_page |-> __page_size]
    /\ page = 1
    /\ data = <<>>
    /\ sent = <<>>
    /\ returned = None
    /\ pc = "idle"
    /\ uncapped = None

\* no call of _summarize has been made
SummarizeIdle ==
    /\ elements = <<>>
    /\ stale_days = 0
    /\ now = 0
    /\ deadline = None
    /\ idx = 1
    /\ opened = 0
    /\ closed = 0
    /\ stale = 0
    /\ spc = "idle"

\* no call of get_contributors has been made
ContribIdle ==
    /\ commits = <<>>
    /\ count = 0
    /\ rating = None
    /\ cpc = "idle"

InitFetch ==
    /\ total \in 0..MaxTotal
    /\ endless \in BOOLEAN
    /\ (endless => total = 0)
    /\ FetchIdle
    /\ date_from = None
    /\ date_to = None
    /\ SummarizeIdle
    /\ ContribIdle

NextFetch ==
    \/ (pc \in {"idle", "done", "error"} /\ \E m \in 0..MaxResults : Call(m))
    \/ SendRequest
    \/ Respond200
    \/ RespondError

SpecFetch == InitFetch /\ [][NextFetch]_vars

\* the same calls against an API whose every response has status 200; the
\* loop of _get_all_pages runs on without waiting for anything but the
\* response, so a request that can be issued is issued and a response that
\* arrives is consumed
NextFetchOk ==
    \/ (pc \in {"idle", "done", "error"} /\ \E m \in 0..MaxResults : Call(m))
    \/ SendRequest
    \/ Respond200

SpecFetchOk ==
    /\ InitFetch
    /\ [][NextFetchOk]_vars
    /\ WF_vars(SendRequest)
    /\ WF_vars(Respond200)

(***************************************************************************)
(* Claims about the paged fetch.                                           *)
(***************************************************************************)
\* pages 1..n of the endpoint at the call's page size, concatenated in order
RECURSIVE PagesConcat(_)
PagesConcat(n) ==
    IF n = 0 THEN <<>> ELSE PagesConcat(n - 1) \o ApiPage(page_size, n)

CeilDiv(a, b) == (a + b - 1) \div b

Capped == max_results # 0
Running == pc \in {"request", "await"}

\* C1: an uncapped fetch of a finite collection (every page before the last
\* full, the last one short) returns the concatenation of all pages in page
\* order, and issues floor(total / pageSize) + 1 requests: one per page up
\* to and including the first short page.
C1_UncappedFetchReturnsAllPages ==
    (pc = "done" /\ ~Capped /\ ~endless) =>
        /\ Len(sent) = (total \div page_size) + 1
        /\ returned = Some(PagesConcat(Len(sent)))
        /\ Len(returned[1]) = total
        /\ \A k \in 1..(Len(sent) - 1) : ApiPageLen(page_size, k) = page_size
        /\ ApiPageLen(page_size, Len(sent)) < page_size

C1_Witness ==
    /\ pc = "done" /\ ~Capped /\ ~endless
    /\ total = 237
    /\ Len(sent) = 3
    /\ returned # None /\ Len(returned[1]) = 237

\* C2: a capped fetch against an API that always returns full pages returns
\* exactly max_results records (the first max_results of the collection),
\* and no request is outstanding or issued once the accumulator holds
\* max_results records or more.
C2_CappedFetchAgainstFullPages ==
    (Capped /\ endless) =>
        /\ (pc = "await" => Len(data) < max_results)
        /\ (pc = "request" => Len(data) < max_results)
        /\ (pc = "done" =>
               /\ returned # None
               /\ Len(returned[1]) = max_results
               /\ returned[1] = [i \in 1..max_results |-> i]
               /\ Len(data) >= max_results
               /\ (Len(sent) - 1) * page_size < max_results)

C2_Witness ==
    /\ pc = "done" /\ endless
    /\ max_results = 150
    /\ Len(sent) = 2
    /\ returned # None /\ Len(returned[1]) = 150

\* C3: a non-200 response ends the fetch in the error outcome: no list is
\* returned (the records of earlier pages included), and neither a further
\* request nor a retry of the failed one can follow in that call.
C3_ErrorAbortsFetch ==
    (pc = "error") =>
        /\ returned = None
        /\ ~ENABLED SendRequest
        /\ ~ENABLED Respond200
        /\ Len(sent) >= 1
        /\ sent[Len(sent)].page = Len(sent)

C3_Witness ==
    /\ pc = "error"
    /\ Len(sent) = 2
    /\ ~Capped /\ total = 237
    /\ returned = None

\* C8: the k-th request of a fetch carries page = k and the call's per_page
\* (min(100, max_results) if capped, else 100); a request is outstanding
\* only with the records of all earlier requests in the accumulator, and the
\* next one is issued only after the outstanding one's records are appended.
C8_RequestsAreSequential ==
    /\ \A k \in 1..Len(sent) :
          /\ sent[k].page = k
          /\ sent[k].per_page =
                 (IF Capped THEN Min(__page_size, max_results)
                  ELSE __page_size)
    /\ (pc = "await" => /\ Len(sent) >= 1
                        /\ data = PagesConcat(Len(sent) - 1))
    /\ (pc = "request" => /\ data = PagesConcat(Len(sent))
                          /\ page = Len(sent) + 1)
    /\ (pc = "done" => data = PagesConcat(Len(sent)))

C8_Witness ==
    /\ pc = "await"
    /\ Len(sent) = 3
    /\ Len(data) = 200
    /\ sent[3] = [per_page |-> 100, page |-> 3]

\* the safety half of C9: why a fetch is done, and after how many requests
C9_Safety ==
    /\ (pc = "done" =>
           \/ ApiPageLen(page_size, Len(sent)) < page_size
           \/ (Capped /\ Len(data) >= max_results))
    /\ ((endless /\ ~Capped) => pc # "done")
    /\ ((endless /\ Capped /\ Running) =>
           Len(sent) <= CeilDiv(max_results, page_size))
    /\ ((endless /\ Capped /\ pc = "done") =>
           Len(sent) = CeilDiv(max_results, page_size))

\* C9: with every response a 200, a fetch that is done ended on a short page
\* or on a reached cap; an uncapped fetch against an API of full pages only
\* is never done; a capped fetch against such an API is done after exactly
\* ceil(max_results / pageSize) requests; and every fetch that is capped or
\* reads a finite collection is eventually done.
C9_Termination ==
    /\ []C9_Safety
    /\ ((Running /\ (Capped \/ ~endless)) ~> (pc = "done"))

C9_Witness ==
    /\ pc = "done" /\ endless
    /\ max_results = 150
    /\ Len(sent) = 2

\* C10: against the same finite collection, a fetch capped at m returns the
\* first min(m, total) records of what the uncapped fetch returned, in the
\* same order: never more than m, and fewer than m only when the collection
\* holds fewer than m records.
C10_CappedIsPrefixOfUncapped ==
    (pc = "done" /\ Capped /\ ~endless /\ uncapped # None) =>
        /\ returned = Some(Take(uncapped[1], max_results))
        /\ Len(returned[1]) = Min(max_results, total)
        /\ Len(returned[1]) <= max_results
        /\ (Len(returned[1]) < max_results => total < max_results)

C10_Witness ==
    /\ pc = "done" /\ Capped /\ ~endless /\ uncapped # None
    /\ max_results = 150 /\ total = 237
    /\ Len(uncapped[1]) = 237
    /\ Len(returned[1]) = 150

(***************************************************************************)
(* Analyzer: time strings and the date window.                             *)
(*                                                                         *)
(* A time string is a record [kind, d, s]:                                 *)
(*   kind = "empty"     None or ""                                         *)
(*   kind = "date"      "YYYY-MM-DD" naming calendar day d                 *)
(*   kind = "datetime"  "YYYY-MM-DDTHH:MM:SSZ": day d, s seconds into it   *)
(* A datetime is a number of seconds since the start of day 0.             *)
(***************************************************************************)
EmptyString == [kind |-> "empty", d |-> 0, s |-> 0]
DateString(d) == [kind |-> "date", d |-> d, s |-> 0]
DateTimeString(d, s) == [kind |-> "datetime", d |-> d, s |-> s]

\* the times of day that appear in API strings and clock readings:
\* 00:00:00 and 10:00:00
TimesOfDay == {0, 36000}

\* lines 60-64: strptime accepts only its own format
ParseTimeRaises(time_string, source) ==
    /\ time_string.kind # "empty"
    /\ time_string.kind # (IF source = "input" THEN "date" ELSE "datetime")

\* lines 57-62
_parse_time(time_string, source) ==
    IF time_string.kind = "empty" THEN None
    ELSE Some(time_string.d * SecondsPerDay + time_string.s)

\* line 85: comparing None with a datetime raises TypeError; a datetime is
\* truthy, None is not, and `and`/`or` short-circuit
FilterByDateRaises(date) ==
    date = None /\ (date_from # None \/ date_to # None)

\* lines 85-87, for the dates it does not raise on
FilterByDateHalfOpen(date) ==
    ~ \/ (date_from # None /\ date[1] < date_from[1])
      \/ (date_to # None /\ date[1] >= date_to[1])

__filter_by_date(date) ==
    ~ \/ (date_from # None /\ date[1] < date_from[1])
      \/ (date_to # None /\ date[1] > date_to[1])

\* line 113: created_at < deadline
IsStaleRaises(created_at) == created_at = None

IsStaleInclusive(created_at) == created_at[1] <= deadline[1]

IsStale(created_at) == created_at[1] < deadline[1]

\* the records the API returns for pull requests and issues
ApiTimeStrings ==
    {EmptyString, DateString(0)} \cup
    {DateTimeString(d, s) : d \in 0..MaxDay, s \in TimesOfDay}

States == {"open", "closed"}

Elements == [created_at : ApiTimeStrings, state : States]

RECURSIVE SeqsUpTo(_, _)
SeqsUpTo(S, n) ==
    IF n = 0 THEN {<<>>}
    ELSE LET shorter == SeqsUpTo(S, n - 1)
         IN  shorter \cup
             {Append(q, x) : q \in {r \in shorter : Len(r) = n - 1}, x \in S}

\* the --date-from / --date-to strings an Analyzer can be constructed with
InputDateStrings == {EmptyString} \cup {DateString(d) : d \in 0..MaxDay}

(***************************************************************************)
(* Analyzer._summarize                                                     *)
(***************************************************************************)
\* lines 97-101: entry of _summarize(elems, days), the clock reading `clock`.
\* Every variable of _summarize is a local and the window is immutable, so
\* a call starts from the state after construction whatever came before.
Summarize(elems, days, clock) ==
    /\ elements' = elems
    /\ stale_days' = days
    /\ now' = clock
    /\ opened' = 0
    /\ closed' = 0
    /\ stale' = 0
    /\ deadline' = Some(clock - days * SecondsPerDay)
    /\ idx' = 1
    /\ spc' = "loop"
    /\ UNCHANGED <<fetchVars, contribVars, date_from, date_to>>

\* the clock readings that put the deadline among the days of the records
Clocks(days) ==
    {(days + d) * SecondsPerDay + s : d \in 0..MaxDay, s \in TimesOfDay}

\* lines 151-159
get_pull_requests_stat ==
    /\ spc = "idle"
    /\ \E elems \in SeqsUpTo(Elements, MaxElems) :
          \E clock \in Clocks(__STALE_PULL_REQUESTS_DAYS) :
              Summarize(elems, __STALE_PULL_REQUESTS_DAYS, clock)

\* lines 161-166
get_issues_stat ==
    /\ spc = "idle"
    /\ \E elems \in SeqsUpTo(Elements, MaxElems) :
          \E clock \in Clocks(__STALE_ISSUES_DAYS) :
              Summarize(elems, __STALE_ISSUES_DAYS, clock)

\* lines 103-116: one iteration of the for loop
SummarizeStep ==
    /\ spc = "loop"
    /\ idx <= Len(elements)
    /\ LET element == elements[idx]
           created_at == _parse_time(element.created_at, "api")
       IN  IF ParseTimeRaises(element.created_at, "api")
              \/ FilterByDateRaises(created_at)
           THEN /\ spc' = "error"
                /\ UNCHANGED <<idx, opened, closed, stale>>
           ELSE IF ~__filter_by_date(created_at)
           THEN /\ idx' = idx + 1
                /\ UNCHANGED <<opened, closed, stale, spc>>
           ELSE IF element.state = "open"
           THEN IF IsStaleRaises(created_at)
                THEN /\ spc' = "error"
                     /\ opened' = opened + 1
                     /\ UNCHANGED <<idx, closed, stale>>
                ELSE /\ opened' = opened + 1
                     /\ stale' = IF IsStale(created_at) THEN stale + 1
                                 ELSE stale
                     /\ idx' = idx + 1
                     /\ UNCHANGED <<closed, spc>>
           ELSE /\ closed' = closed + 1
                /\ idx' = idx + 1
                /\ UNCHANGED <<opened, stale, spc>>
    /\ UNCHANGED <<fetchVars, contribVars, date_from, date_to, elements, stale_days, now,
                   deadline>>

\* line 118: the loop is over, return opened, closed, stale
SummarizeReturn ==
    /\ spc = "loop"
    /\ idx > Len(elements)
    /\ spc' = "done"
    /\ UNCHANGED <<fetchVars, contribVars, date_from, date_to, elements, stale_days, now,
                   deadline, idx, opened, closed, stale>>

\* lines 26-29: the Analyzer's window, parsed from the input strings
InitSummarize ==
    /\ total = 0
    /\ endless = FALSE
    /\ FetchIdle
    /\ \E f \in InputDateStrings : date_from = _parse_time(f, "input")
    /\ \E t \in InputDateStrings : date_to = _parse_time(t, "input")
    /\ SummarizeIdle
    /\ ContribIdle

NextSummarize ==
    \/ get_pull_requests_stat
    \/ get_issues_stat
    \/ SummarizeStep
    \/ SummarizeReturn

SpecSummarize == InitSummarize /\ [][NextSummarize]_vars

(***************************************************************************)
(* Claims about _summarize.                                                *)
(***************************************************************************)
\* the records the loop has gone through
Processed == SubSeq(elements, 1, idx - 1)

TimeOf(element) == _parse_time(element.created_at, "api")

\* the window as the specification defines it
InWindow(element) ==
    /\ (date_from = None \/ TimeOf(element)[1] >= date_from[1])
    /\ (date_to = None \/ TimeOf(element)[1] <= date_to[1])

CountOf(q, P(_)) == Cardinality({i \in 1..Len(q) : P(q[i])})

IsOpenInWindow(element) == InWindow(element) /\ element.state = "open"
IsClosedInWindow(element) == InWindow(element) /\ element.state # "open"
IsStaleInWindow(element) ==
    /\ IsOpenInWindow(element)
    /\ TimeOf(element)[1] < now - stale_days * SecondsPerDay

InLoopOrDone == spc \in {"loop", "done"}

\* C4: after every prefix of the iteration and in the result, opened and
\* closed count in-window records only (open ones and others), and
\* opened + closed is the number of in-window records gone through.
C4_CountsOnlyInWindow ==
    InLoopOrDone =>
        /\ opened = CountOf(Processed, IsOpenInWindow)
        /\ closed = CountOf(Processed, IsClosedInWindow)
        /\ opened + closed = CountOf(Processed, InWindow)
        /\ (spc = "done" => Processed = elements)

C4_Witness ==
    /\ spc = "done"
    /\ Len(elements) = 2
    /\ date_from # None /\ date_to # None
    /\ opened + closed = 1
    /\ CountOf(elements, InWindow) = 1

\* C5: at every point of the iteration and in the result, stale <= opened,
\* and stale is the number of records gone through that are in the window,
\* open, and created strictly before the deadline now - stale_days, which is
\* fixed before the loop; records in any other state add nothing to stale.
C5_StaleIsSubsetOfOpened ==
    InLoopOrDone =>
        /\ stale <= opened
        /\ deadline = Some(now - stale_days * SecondsPerDay)
        /\ stale = CountOf(Processed, IsStaleInWindow)

C5_Witness ==
    /\ spc = "done"
    /\ Len(elements) = 2
    /\ stale = 1
    /\ opened = 2
    /\ \E i \in 1..2 : TimeOf(elements[i]) = deadline

(***************************************************************************)
(* Analyzer.get_contributors                                               *)
(*                                                                         *)
(* A commit is a record; its "author" is None (JSON null) or Some(login),  *)
(* and a commit may lack the key.  The rating dict is a sequence of        *)
(* <<login, commits>> pairs in insertion order, the order dict.items()     *)
(* lists them in.                                                          *)
(***************************************************************************)
Logins == {"A", "B", "C"}

Commits ==
    {[author |-> None]} \cup {[author |-> Some(l)] : l \in Logins}
        \cup {[sha |-> "x"]}

\* line 136: commit["author"] raises KeyError without the key
AuthorRaises(commit) == "author" \notin DOMAIN commit

\* line 141: rating[login] += 1 on a defaultdict(int)
Increment(r, login) ==
    IF \E i \in 1..Len(r) : r[i][1] = login
    THEN [i \in 1..Len(r) |->
             IF r[i][1] = login THEN <<login, r[i][2] + 1>> ELSE r[i]]
    ELSE Append(r, <<login, 1>>)

\* lines 138-141: one commit
TallyOneCountingNull(r, commit) ==
    IF commit.author = None THEN Increment(r, "null")
    ELSE Increment(r, commit.author[1])

TallyOne(r, commit) ==
    IF commit.author = None THEN r
    ELSE Increment(r, commit.author[1])

\* lines 133-141, for commits that all have the key
RECURSIVE Tally(_)
Tally(cs) ==
    IF cs = <<>> THEN <<>>
    ELSE TallyOne(Tally(SubSeq(cs, 1, Len(cs) - 1)), cs[Len(cs)])

\* insert x behind every entry whose key is >= x's: equal keys keep their
\* order
InsertDesc(sorted, x) ==
    LET before == {i \in 1..Len(sorted) : sorted[i][2] >= x[2]}
        n == Cardinality(before)
    IN  SubSeq(sorted, 1, n) \o <<x>> \o SubSeq(sorted, n + 1, Len(sorted))

\* insert x in front of every entry whose key is <= x's: equal keys end up
\* in reverse order
InsertDescTiesReversed(sorted, x) ==
    LET before == {i \in 1..Len(sorted) : sorted[i][2] > x[2]}
        n == Cardinality(before)
    IN  SubSeq(sorted, 1, n) \o <<x>> \o SubSeq(sorted, n + 1, Len(sorted))

RECURSIVE SortDescTiesReversed(_)
SortDescTiesReversed(r) ==
    IF r = <<>> THEN <<>>
    ELSE InsertDescTiesReversed(
             SortDescTiesReversed(SubSeq(r, 1, Len(r) - 1)), r[Len(r)])

\* line 145: rating.sort(key = lambda x: x[1], reverse = True); list.sort is
\* stable, and stays so with reverse = True
RECURSIVE SortDesc(_)
SortDesc(r) ==
    IF r = <<>> THEN <<>>
    ELSE InsertDesc(SortDesc(SubSeq(r, 1, Len(r) - 1)), r[Len(r)])

\* lines 147-149
Truncate(r, n) == IF n # 0 THEN Take(r, n) ELSE r

\* lines 120-149: get_contributors(count = n), get_commits having returned cs
GetContributors(cs, n) ==
    /\ commits' = cs
    /\ count' = n
    /\ IF \E i \in 1..Len(cs) : AuthorRaises(cs[i])
       THEN /\ rating' = None
            /\ cpc' = "error"
       ELSE /\ rating' = Some(Truncate(SortDesc(Tally(cs)), n))
            /\ cpc' = "done"
    /\ UNCHANGED <<fetchVars, summarizeVars>>

InitContrib ==
    /\ total = 0
    /\ endless = FALSE
    /\ FetchIdle
    /\ date_from = None
    /\ date_to = None
    /\ SummarizeIdle
    /\ ContribIdle

\* get_contributors keeps nothing between calls: each call is modelled from
\* the state after construction
NextContrib ==
    /\ cpc = "idle"
    /\ \E cs \in SeqsUpTo(Commits, MaxCommits) :
          \E n \in 0..MaxCount : GetContributors(cs, n)

SpecContrib == InitContrib /\ [][NextContrib]_vars

(***************************************************************************)
(* Claims about get_contributors.                                          *)
(***************************************************************************)
HasAuthor(commit) == commit.author # None

\* the positions of the commits by login
CommitsBy(login) ==
    {i \in 1..Len(commits) : HasAuthor(commits[i]) /\ commits[i].author[1] = login}

AuthorsSeen == {l \in Logins : CommitsBy(l) # {}}

FirstCommitBy(login) ==
    CHOOSE i \in CommitsBy(login) : \A j \in CommitsBy(login) : i <= j

\* login x ranks before login y
RanksBefore(x, y) ==
    \/ Cardinality(CommitsBy(x)) > Cardinality(CommitsBy(y))
    \/ /\ Cardinality(CommitsBy(x)) = Cardinality(CommitsBy(y))
       /\ FirstCommitBy(x) < FirstCommitBy(y)

Ranked == {rating[1][i][1] : i \in 1..Len(rating[1])}

RECURSIVE SumCounts(_)
SumCounts(r) ==
    IF r = <<>> THEN 0 ELSE r[Len(r)][2] + SumCounts(SubSeq(r, 1, Len(r) - 1))

\* C6: the ranking is in descending order of commit count, logins with equal
\* counts in the order of their first commit in the fetched sequence; with a
\* nonzero limit it is the first `limit` entries of that order.
C6_RankingIsStableDescending ==
    (cpc = "done") =>
        LET r == rating[1]
        IN  /\ \A i \in 1..Len(r) : r[i][1] \in AuthorsSeen
            /\ \A i, j \in 1..Len(r) : i < j => RanksBefore(r[i][1], r[j][1])
            /\ \A i \in 1..Len(r) : r[i][2] = Cardinality(CommitsBy(r[i][1]))
            /\ Len(r) = (IF count # 0
                         THEN Min(count, Cardinality(AuthorsSeen))
                         ELSE Cardinality(AuthorsSeen))
            /\ \A x \in AuthorsSeen \ Ranked :
                   \A i \in 1..Len(r) : RanksBefore(r[i][1], x)

C6_Witness ==
    /\ cpc = "done"
    /\ count = 0
    /\ commits = [i \in 1..6 |->
                     [author |-> Some(<<"A", "B", "A", "C", "B", "A">>[i])]]
    /\ rating = Some(<< <<"A", 3>>, <<"B", 2>>, <<"C", 1>> >>)

\* C7: without a limit the ranking has exactly one entry per login among the
\* commits with a non-null author, each with the number of that login's
\* commits, and the counts add up to the number of commits with a non-null
\* author: commits with a null author are counted nowhere.
C7_NullAuthorsAreSkipped ==
    (cpc = "done" /\ count = 0) =>
        LET r == rating[1]
        IN  /\ Ranked = AuthorsSeen
            /\ Len(r) = Cardinality(AuthorsSeen)
            /\ \A i \in 1..Len(r) : r[i][2] = Cardinality(CommitsBy(r[i][1]))
            /\ SumCounts(r) =
                   Cardinality({i \in 1..Len(commits) : HasAuthor(commits[i])})

C7_Witness ==
    /\ cpc = "done"
    /\ count = 0
    /\ commits = <<[author |-> None], [author |-> Some("A")]>>
    /\ rating = Some(<< <<"A", 1>> >>)

=============================================================================
